---- MODULE Spec2Model ----
(***************************************************************************)
(* The shared session of the training simulator: one training_sessions     *)
(* row, its session_participants, key_authorizations and session_events    *)
(* rows in the store, and the browser clients that read and write them.    *)
(* Every store call is one atomic step; a handler that awaits several      *)
(* store calls, or that starts a timer, continues as a pending task.       *)
(***************************************************************************)
EXTENDS Naturals, Sequences, FiniteSets, Bags, TLC

VARIABLES
    session,        \* the training_sessions row of the session, if created
    participants,   \* session_participants rows, in joined_at order
    keyAuths,       \* key_authorizations rows, in created_at order (id = index)
    events,         \* session_events: number of rows per event_type (and, of
                    \* diagnostics_completed, per event_data.passed)
    joined,         \* the participant_joined events, in created_at order:
                    \* user_id and event_data.role
    userOf,         \* the user id each client is signed in as
    screen,         \* App.sessionId per client: "lobby" or "simulator"
    lobby,          \* per client: position inside createSession / joinSession,
                    \* the code typed, the roles it read, the role it chose,
                    \* the error shown
    view,           \* per client: Simulator's session, participants, userRole and
                    \* keyAuth state (of session and keyAuth, the columns the
                    \* handlers read; of participants, the rows of the client's user)
    pollpc,         \* per client: position inside loadSessionData
    tasks,          \* bag of pending timer callbacks and handler continuations
                    \* (away: the callback fired after its client left the session)
    clicks,         \* user actions still to come, per client and kind
    overlapped,     \* history: some join ran while another join was in flight
    rejected        \* history: per client, the store calls of its actions that
                    \* the store rejected

vars == <<session, participants, keyAuths, events, joined, userOf, screen,
          lobby, view, pollpc, tasks, clicks, overlapped, rejected>>

NULL == "null"

\* A nullable row: no row, or the row.
None == <<>>
Some(row) == <<row>>

Clients == {"c1", "c2", "c3", "c4"}
Users == {"u1", "u2", "u3", "u4"}
Creator == "c1"

\* Bounds on the user actions of one run, per client.
MaxJoin == 1
MaxLeave == 1
MaxInit == 1
MaxDiag == 1
MaxSubmit == 1

NoClicks == [join |-> 0, leave |-> 0, init |-> 0, diag |-> 0, submit |-> 0]

\* The procedure: the instructor's browser c1 runs steps 1 and 2, the operators'
\* browsers c2 and c3 submit their keys, and c3 may leave.
Procedure ==
    [c \in Clients |->
        CASE c = "c1" -> [NoClicks EXCEPT !.init = MaxInit, !.diag = MaxDiag]
          [] c = "c2" -> [NoClicks EXCEPT !.submit = MaxSubmit]
          [] c = "c3" -> [NoClicks EXCEPT !.submit = MaxSubmit, !.leave = MaxLeave]
          [] OTHER -> NoClicks]

\* The lobby: c1 creates the session, c2, c3 and c4 join by code, c2 may leave
\* and join again.
Arrivals ==
    [c \in Clients |->
        CASE c = "c1" -> NoClicks
          [] c = "c2" -> [NoClicks EXCEPT !.join = MaxJoin + 1, !.leave = MaxLeave]
          [] OTHER -> [NoClicks EXCEPT !.join = MaxJoin]]

\* A change of seats: operator c2 submits, leaves and joins again while c3 joins.
Reseating ==
    [c \in Clients |->
        CASE c = "c1" -> [NoClicks EXCEPT !.init = MaxInit, !.diag = MaxDiag]
          [] c = "c2" -> [NoClicks EXCEPT !.submit = MaxSubmit + 1,
                                          !.leave = MaxLeave, !.join = MaxJoin]
          [] c = "c3" -> [NoClicks EXCEPT !.join = MaxJoin]
          [] OTHER -> NoClicks]

\* The seats: operator c2 may leave and join again while c3 and c4 join by code.
Seats ==
    [c \in Clients |->
        CASE c = "c1" -> NoClicks
          [] c = "c2" -> [NoClicks EXCEPT !.leave = MaxLeave, !.join = MaxJoin]
          [] OTHER -> [NoClicks EXCEPT !.join = MaxJoin]]

\* Steps 1 and 2: the instructor's browser c1 initializes and starts diagnostics,
\* once more while a run is pending; operator c2 has the step 1 button too.
Diagnostics ==
    [c \in Clients |->
        CASE c = "c1" -> [NoClicks EXCEPT !.init = MaxInit, !.diag = MaxDiag + 1]
          [] c = "c2" -> [NoClicks EXCEPT !.init = MaxInit]
          [] OTHER -> NoClicks]

\* An observer at the controls: c4, the third user to join, tries every step;
\* the instructor runs steps 1 and 2.
Observing ==
    [c \in Clients |->
        CASE c = "c1" -> [NoClicks EXCEPT !.init = MaxInit, !.diag = MaxDiag]
          [] c = "c4" -> [NoClicks EXCEPT !.init = MaxInit, !.diag = MaxDiag,
                                          !.submit = MaxSubmit]
          [] OTHER -> NoClicks]

\* The instructor walks away: c1 runs steps 1 and 2 and leaves.
Departure ==
    [c \in Clients |->
        CASE c = "c1" -> [NoClicks EXCEPT !.init = MaxInit, !.diag = MaxDiag,
                                          !.leave = MaxLeave]
          [] OTHER -> NoClicks]

\* An unreliable store: the instructor initializes, again after a rejected
\* write, and c3 joins by code, again after a rejected insert.
Faults ==
    [c \in Clients |->
        CASE c = "c1" -> [NoClicks EXCEPT !.init = MaxInit + 1]
          [] c = "c3" -> [NoClicks EXCEPT !.join = MaxJoin + 1]
          [] OTHER -> NoClicks]

\* After the authentication: operator c3 leaves, joins again and submits a key.
Resubmission ==
    [c \in Clients |->
        CASE c = "c3" -> [NoClicks EXCEPT !.leave = MaxLeave, !.join = MaxJoin,
                                          !.submit = MaxSubmit]
          [] OTHER -> NoClicks]

\* What the polls have to follow: the instructor runs steps 1 and 2, operator c2
\* submits a key, operator c3 leaves.
Polling ==
    [c \in Clients |->
        CASE c = "c1" -> [NoClicks EXCEPT !.init = MaxInit, !.diag = MaxDiag]
          [] c = "c2" -> [NoClicks EXCEPT !.submit = MaxSubmit]
          [] c = "c3" -> [NoClicks EXCEPT !.leave = MaxLeave]
          [] OTHER -> NoClicks]

\* Diagnostics started twice: both operators submit their keys while the second
\* of the two runs the instructor started is pending.
Rerun ==
    [c \in Clients |->
        IF c \in {"c2", "c3"} THEN [NoClicks EXCEPT !.submit = MaxSubmit]
        ELSE NoClicks]

\* Key entry: operator c2 calls the key handler twice, operator c3 once.
KeyEntry ==
    [c \in Clients |->
        CASE c = "c2" -> [NoClicks EXCEPT !.submit = MaxSubmit + 1]
          [] c = "c3" -> [NoClicks EXCEPT !.submit = MaxSubmit]
          [] OTHER -> NoClicks]

KeyLength == 8
Keys == {"K3Y00001"}
\* What an operator's key input may hold when the handler is called.
TypedKeys == {"K3Y", "K3Y00001"}
SessionCode == "AB12-CD34"
Codes == {"AB12-CD34", "ab12-cd34", "ZZZZ-9999"}

EventTypes == {"participant_joined", "participant_left", "system_initialized",
               "diagnostics_started", "diagnostics_completed/passed",
               "diagnostics_completed/failed",
               "operator_a_authenticated", "operator_b_authenticated",
               "dual_key_authentication_complete"}

ToUpperCase(code) == IF code = "ab12-cd34" THEN "AB12-CD34" ELSE code

InitialSystemState ==
    [initialized |-> FALSE, diagnosticsPassed |-> FALSE, authenticated |-> FALSE,
     armed |-> FALSE, countdownActive |-> FALSE, countdownAbortable |-> TRUE,
     countdownSeconds |-> 60, systemLocked |-> FALSE, lockType |-> NULL,
     systemHold |-> FALSE, faultInjected |-> FALSE, adminForcedOutcome |-> NULL,
     activeScenario |-> NULL, subsystems |-> <<>>, delayMultiplier |-> 1,
     latencyEnabled |-> TRUE]

NewSession(user) ==
    [session_code |-> SessionCode, created_by |-> user, status |-> "waiting",
     current_step |-> 0, system_state |-> InitialSystemState]

\* Mutant of the merge: { ...updates }, the settings not updated are lost and
\* read as their empty values (a number as 0, a flag as false).
UpdatesOnly(state, updates) ==
    [f \in DOMAIN state |->
        IF f \in DOMAIN updates THEN updates[f]
        ELSE IF f \in {"countdownSeconds", "delayMultiplier"} THEN 0
        ELSE IF f \in {"countdownAbortable", "latencyEnabled"} THEN FALSE
        ELSE state[f]]

\* { ...state, ...updates }
Merge(state, updates) ==
    [f \in DOMAIN state |-> IF f \in DOMAIN updates THEN updates[f] ELSE state[f]]

EmptyView ==
    [session |-> None, participants |-> <<>>, userRole |-> NULL, keyAuth |-> None]

LogEvent(type) == events' = [events EXCEPT ![type] = @ + 1]

AddTask(bag, t) == bag (+) SetToBag({t})
DropTask(bag, t) == bag (-) SetToBag({t})

IdleLobby ==
    [pc |-> "idle", code |-> "", existingRoles |-> {}, role |-> NULL, error |-> ""]

NoEvents == [t \in EventTypes |-> 0]

FourUsers ==
    [c \in Clients |-> CASE c = "c1" -> "u1" [] c = "c2" -> "u2"
                          [] c = "c3" -> "u3" [] OTHER -> "u4"]

\* Who is signed in where: four users, or user u2 signed in on two browsers.
Casts == {FourUsers, [FourUsers EXCEPT !["c4"] = "u2"]}

\* Nothing created yet: every client is in the lobby.
InitLobby ==
    /\ session = None
    /\ participants = <<>>
    /\ keyAuths = <<>>
    /\ events = NoEvents
    /\ joined = <<>>
    /\ userOf \in Casts
    /\ screen = [c \in Clients |-> "lobby"]
    /\ lobby = [c \in Clients |-> IdleLobby]
    /\ view = [c \in Clients |-> EmptyView]
    /\ pollpc = [c \in Clients |-> "idle"]
    /\ tasks = EmptyBag
    /\ clicks = Arrivals
    /\ overlapped = FALSE
    /\ rejected = [c \in Clients |-> 0]

\* The session as createSession by u1 and the joins of the given users, one after
\* the other, leave it; their clients have just mounted the Simulator.
Seated(users, scenario) ==
    /\ session = Some(NewSession("u1"))
    /\ participants = [i \in 1..Len(users) + 1 |->
                          IF i = 1 THEN [user_id |-> "u1", role |-> "instructor"]
                          ELSE [user_id |-> users[i - 1],
                                role |-> IF i = 2 THEN "operator_a"
                                         ELSE IF i = 3 THEN "operator_b"
                                         ELSE "observer"]]
    /\ keyAuths = <<>>
    /\ events = [NoEvents EXCEPT !["participant_joined"] = Len(users)]
    /\ joined = [i \in 1..Len(users) |->
                    [user_id |-> users[i],
                     role |-> participants[i + 1].role]]
    /\ userOf = FourUsers
    /\ screen = [c \in Clients |->
                    IF FourUsers[c] \in {"u1"} \cup {users[i] : i \in 1..Len(users)}
                    THEN "simulator" ELSE "lobby"]
    /\ lobby = [c \in Clients |-> IdleLobby]
    /\ view = [c \in Clients |-> EmptyView]
    /\ pollpc = [c \in Clients |-> "idle"]
    /\ tasks = EmptyBag
    /\ clicks = scenario
    /\ overlapped = FALSE
    /\ rejected = [c \in Clients |-> 0]

Init == Seated(<<"u2", "u3">>, Procedure)

InitReseating == Seated(<<"u2">>, Reseating)

InitSeats == Seated(<<"u2">>, Seats)

InitDiagnostics == Seated(<<"u2">>, Diagnostics)

InitObserver == Seated(<<"u2", "u3", "u4">>, Observing)

InitDeparture == Seated(<<"u2">>, Departure)

InitFaults == Seated(<<"u2">>, Faults)

InitPolling == Seated(<<"u2", "u3">>, Polling)

----------------------------------------------------------------------------
\* SessionLobby.createSession

CreateSession(c) ==
    /\ c = Creator /\ screen[c] = "lobby" /\ lobby[c].pc = "idle"
    /\ session = None
    /\ session' = Some(NewSession(userOf[c]))
    /\ lobby' = [lobby EXCEPT ![c].pc = "create_participant", ![c].error = ""]
    /\ UNCHANGED <<joined, participants, keyAuths, events, userOf, rejected, screen, view,
                   pollpc, tasks, clicks, overlapped>>

CreateParticipant(c) ==
    /\ lobby[c].pc = "create_participant"
    /\ participants' = Append(participants,
                              [user_id |-> userOf[c], role |-> "instructor"])
    /\ lobby' = [lobby EXCEPT ![c] = IdleLobby]
    /\ screen' = [screen EXCEPT ![c] = "simulator"]
    /\ view' = [view EXCEPT ![c] = EmptyView]
    /\ UNCHANGED <<joined, session, keyAuths, events, userOf, rejected, pollpc, tasks, clicks,
                   overlapped>>

----------------------------------------------------------------------------
\* SessionLobby.joinSession

Joining(c) == lobby[c].pc \in {"join_roles", "join_insert"}

\* Mutant of the role selection: the free operator seats are tried in the other order.
SelectRoleBFirst(existingRoles) ==
    IF "operator_b" \notin existingRoles THEN "operator_b"
    ELSE IF "operator_a" \notin existingRoles THEN "operator_a"
    ELSE "observer"

SelectRole(existingRoles) ==
    IF "operator_a" \notin existingRoles THEN "operator_a"
    ELSE IF "operator_b" \notin existingRoles THEN "operator_b"
    ELSE "observer"

HasParticipant(user) ==
    \E i \in 1..Len(participants) : participants[i].user_id = user

\* Mutant of the session lookup: the code is not compared.
AnySessionFound(code) == session # None

\* .eq('session_code', code.toUpperCase()).single() returns a row
SessionFound(code) ==
    /\ session # None
    /\ session[1].session_code = ToUpperCase(code)

\* The session lookup by code and the existing-participant check; the input has
\* put the code typed in upper case.
JoinSession(c, code) ==
    /\ screen[c] = "lobby" /\ lobby[c].pc = "idle"
    /\ clicks[c].join > 0
    /\ clicks' = [clicks EXCEPT ![c].join = @ - 1]
    /\ IF ~SessionFound(code)
       THEN /\ lobby' = [lobby EXCEPT ![c].code = ToUpperCase(code),
                                      ![c].error = "Session not found"]
            /\ UNCHANGED <<screen, view, overlapped>>
       ELSE IF HasParticipant(userOf[c])
       THEN /\ lobby' = [lobby EXCEPT ![c] = IdleLobby]
            /\ screen' = [screen EXCEPT ![c] = "simulator"]
            /\ view' = [view EXCEPT ![c] = EmptyView]
            /\ UNCHANGED overlapped
       ELSE /\ lobby' = [lobby EXCEPT ![c].pc = "join_roles",
                                      ![c].code = ToUpperCase(code),
                                      ![c].error = ""]
            /\ overlapped' = (overlapped \/ \E d \in Clients \ {c} : Joining(d))
            /\ UNCHANGED <<screen, view>>
    /\ UNCHANGED <<joined, session, participants, keyAuths, events, userOf, rejected,
                   pollpc, tasks>>

JoinRoles(c) ==
    /\ lobby[c].pc = "join_roles"
    /\ LET existingRoles == {participants[i].role : i \in 1..Len(participants)}
       IN lobby' = [lobby EXCEPT ![c].pc = "join_insert",
                                 ![c].existingRoles = existingRoles,
                                 ![c].role = SelectRole(existingRoles)]
    /\ UNCHANGED <<session, participants, keyAuths, events, joined, userOf, rejected,
                   screen, view, pollpc, tasks, clicks, overlapped>>

JoinInsert(c) ==
    /\ lobby[c].pc = "join_insert"
    /\ participants' = Append(participants,
                              [user_id |-> userOf[c], role |-> lobby[c].role])
    /\ LogEvent("participant_joined")
    /\ joined' = Append(joined, [user_id |-> userOf[c], role |-> lobby[c].role])
    /\ lobby' = [lobby EXCEPT ![c] = IdleLobby]
    /\ screen' = [screen EXCEPT ![c] = "simulator"]
    /\ view' = [view EXCEPT ![c] = EmptyView]
    /\ UNCHANGED <<session, keyAuths, userOf, rejected, pollpc, tasks, clicks, overlapped>>

----------------------------------------------------------------------------
\* Simulator.loadSessionData, started on mount and every 2 s

\* Mutant of the session read: the session is set on the first load only.
SetSessionOnce(c, sessionData) ==
    IF view[c].session = None THEN Some(sessionData.system_state)
    ELSE view[c].session

\* if (sessionData) setSession(sessionData)
SetSession(c, sessionData) == Some(sessionData.system_state)

PollSession(c) ==
    /\ screen[c] = "simulator" /\ pollpc[c] = "idle"
    /\ session # None
    /\ view' = [view EXCEPT ![c].session = SetSession(c, session[1])]
    /\ pollpc' = [pollpc EXCEPT ![c] = "participants"]
    /\ UNCHANGED <<joined, session, participants, keyAuths, events, userOf, rejected, screen,
                   lobby, tasks, clicks, overlapped>>

\* The rows of a participant list that belong to the user, in joined_at order.
RowsOf(participantsData, user) ==
    SelectSeq(participantsData, LAMBDA p : p.user_id = user)

\* participantsData.find(p => p.user_id === userId)
FindMe(user) ==
    LET mine == RowsOf(participants, user)
    IN IF mine = <<>> THEN NULL ELSE mine[1].role

PollParticipants(c) ==
    /\ screen[c] = "simulator" /\ pollpc[c] = "participants"
    /\ LET me == FindMe(userOf[c])
       IN view' = [view EXCEPT ![c].participants = RowsOf(participants, userOf[c]),
                              ![c].userRole = IF me # NULL THEN me ELSE @]
    /\ pollpc' = [pollpc EXCEPT ![c] = "keyauth"]
    /\ UNCHANGED <<joined, session, participants, keyAuths, events, userOf, rejected, screen,
                   lobby, tasks, clicks, overlapped>>

\* order('created_at', { ascending: false }).limit(1).single()
LatestKeyAuth == IF keyAuths = <<>> THEN None ELSE Some(keyAuths[Len(keyAuths)])

\* The columns of the row that the view's handlers and controls read.
Held(row) ==
    [id |-> row.id, operator_a_auth_at |-> row.operator_a_auth_at,
     operator_b_auth_at |-> row.operator_b_auth_at]

PollKeyAuth(c) ==
    /\ screen[c] = "simulator" /\ pollpc[c] = "keyauth"
    /\ view' = [view EXCEPT ![c].keyAuth =
                    IF LatestKeyAuth # None THEN Some(Held(LatestKeyAuth[1])) ELSE @]
    /\ pollpc' = [pollpc EXCEPT ![c] = "idle"]
    /\ UNCHANGED <<joined, session, participants, keyAuths, events, userOf, rejected, screen,
                   lobby, tasks, clicks, overlapped>>

----------------------------------------------------------------------------
\* Simulator.updateSessionState, on the session state the caller's render held

UpdateSessionState(system_state, updates) ==
    session' = Some([session[1] EXCEPT
                        !.system_state = Merge(system_state, updates)])

\* The view shows the controls once the session has loaded.
Loaded(c) == screen[c] = "simulator" /\ view[c].session # None
State(c) == view[c].session[1]
IsObserver(c) == view[c].userRole = "observer"

----------------------------------------------------------------------------
\* Simulator.handleInitialize

CanInitialize(c) == Loaded(c) /\ ~State(c).initialized /\ ~IsObserver(c)

HandleInitialize(c) ==
    /\ CanInitialize(c)
    /\ clicks[c].init > 0
    /\ clicks' = [clicks EXCEPT ![c].init = @ - 1]
    /\ UpdateSessionState(view[c].session[1], [initialized |-> TRUE])
    /\ LogEvent("system_initialized")
    /\ tasks' = AddTask(tasks, [kind |-> "init_step", client |-> c,
                                snapshot |-> None, row |-> 0, away |-> FALSE])
    /\ UNCHANGED <<joined, participants, keyAuths, userOf, rejected, screen, lobby, view,
                   pollpc, overlapped>>

InitializeStep(c) ==
    \E t \in BagToSet(tasks) :
    /\ t.client = c
    /\ t.kind = "init_step"
    /\ session' = Some([session[1] EXCEPT !.current_step = 1, !.status = "active"])
    /\ tasks' = DropTask(tasks, t)
    /\ UNCHANGED <<joined, participants, keyAuths, events, userOf, rejected, screen, lobby,
                   view, pollpc, clicks, overlapped>>

----------------------------------------------------------------------------
\* Simulator.handleDiagnostics

\* Mutant of the step 2 gating: the button is shown before initialization.
DiagnoseWithoutInitialize(c) ==
    Loaded(c) /\ ~State(c).diagnosticsPassed /\ ~IsObserver(c)

CanDiagnose(c) ==
    Loaded(c) /\ State(c).initialized /\ ~State(c).diagnosticsPassed /\ ~IsObserver(c)

HandleDiagnostics(c) ==
    /\ CanDiagnose(c)
    /\ clicks[c].diag > 0
    /\ clicks' = [clicks EXCEPT ![c].diag = @ - 1]
    /\ LogEvent("diagnostics_started")
    /\ tasks' = AddTask(tasks, [kind |-> "diag_timer", client |-> c,
                                snapshot |-> view[c].session, row |-> 0,
                                away |-> FALSE])
    /\ UNCHANGED <<joined, session, participants, keyAuths, userOf, rejected, screen, lobby,
                   view, pollpc, overlapped>>

\* The timer callback: passed = Math.random() > 0.1
DiagnosticsTimer(c, passed) ==
    \E t \in BagToSet(tasks) :
    /\ t.client = c
    /\ t.kind = "diag_timer"
    /\ UpdateSessionState(t.snapshot[1], [diagnosticsPassed |-> passed])
    /\ LogEvent(IF passed THEN "diagnostics_completed/passed"
                ELSE "diagnostics_completed/failed")
    /\ tasks' = IF passed
                THEN AddTask(DropTask(tasks, t),
                             [t EXCEPT !.kind = "diag_step", !.snapshot = None,
                                       !.away = (screen[c] = "lobby")])
                ELSE DropTask(tasks, t)
    /\ UNCHANGED <<joined, participants, keyAuths, userOf, rejected, screen, lobby, view,
                   pollpc, clicks, overlapped>>

DiagnosticsStep(c) ==
    \E t \in BagToSet(tasks) :
    /\ t.client = c
    /\ t.kind = "diag_step"
    /\ session' = Some([session[1] EXCEPT !.current_step = 2])
    /\ tasks' = DropTask(tasks, t)
    /\ UNCHANGED <<joined, participants, keyAuths, events, userOf, rejected, screen, lobby,
                   view, pollpc, clicks, overlapped>>

----------------------------------------------------------------------------
\* Simulator.handleKeySubmit

\* The status column of a row inserted without one.
DefaultKeyAuthStatus == "pending"

NewKeyAuth ==
    [id |-> Len(keyAuths) + 1,
     operator_a_key |-> NULL, operator_b_key |-> NULL, command_key |-> NULL,
     operator_a_auth_at |-> NULL, operator_b_auth_at |-> NULL,
     command_auth_at |-> NULL, status |-> DefaultKeyAuthStatus,
     operator_a_user |-> NULL, operator_b_user |-> NULL]

\* new Date().toISOString(): a non-null timestamp
Timestamp == "ts"

\* The fields one operator's submission writes; operator_x_user is the user_id
\* of the operator_x_authenticated event logged with it.
OperatorFields(role, key, user) ==
    IF role = "operator_a"
    THEN [operator_a_key |-> key, operator_a_auth_at |-> Timestamp,
          operator_a_user |-> user]
    ELSE [operator_b_key |-> key, operator_b_auth_at |-> Timestamp,
          operator_b_user |-> user]

AuthAt(row, role) ==
    IF role = "operator_a" THEN row.operator_a_auth_at ELSE row.operator_b_auth_at

\* Mutant of the key section: it is shown before diagnostics passed.
SubmitWithoutDiagnostics(c, key) ==
    /\ Loaded(c)
    /\ view[c].userRole \in {"operator_a", "operator_b"}
    /\ Len(key) = KeyLength
    /\ IF view[c].keyAuth = None THEN TRUE
       ELSE AuthAt(view[c].keyAuth[1], view[c].userRole) = NULL

\* The key section is shown to an operator once diagnostics passed; the button is
\* disabled unless the key has 8 characters and the operator is not yet authenticated.
CanSubmit(c, key) ==
    /\ Loaded(c) /\ State(c).diagnosticsPassed
    /\ view[c].userRole \in {"operator_a", "operator_b"}
    /\ Len(key) = KeyLength
    /\ IF view[c].keyAuth = None THEN TRUE
       ELSE AuthAt(view[c].keyAuth[1], view[c].userRole) = NULL

\* Update the row the view holds, or insert a row when the view holds none.
UpsertKeyAuth(c, key) ==
    LET fields == OperatorFields(view[c].userRole, key, userOf[c])
    IN IF view[c].keyAuth # None
       THEN [keyAuths EXCEPT ![view[c].keyAuth[1].id] = Merge(@, fields)]
       ELSE Append(keyAuths, Merge(NewKeyAuth, fields))

\* Mutant of the handler's key test: the length of the key is not looked at.
AnyKeyAccepted(role, key) == role \in {"operator_a", "operator_b"}

\* isOperatorA && operatorAKey.length === 8, isOperatorB && operatorBKey.length === 8
KeyAccepted(role, key) ==
    /\ role \in {"operator_a", "operator_b"}
    /\ Len(key) = KeyLength

\* The handler, called with the key its operator's input holds: it returns at
\* once without a session or a role, writes the key if it accepts it, and starts
\* the completion check in either case.
KeySubmitHandler(c, key) ==
    /\ view[c].session # None /\ view[c].userRole # NULL
    /\ clicks[c].submit > 0
    /\ clicks' = [clicks EXCEPT ![c].submit = @ - 1]
    /\ IF KeyAccepted(view[c].userRole, key)
       THEN /\ keyAuths' = UpsertKeyAuth(c, key)
            /\ LogEvent(IF view[c].userRole = "operator_a"
                        THEN "operator_a_authenticated"
                        ELSE "operator_b_authenticated")
       ELSE UNCHANGED <<keyAuths, events>>
    /\ tasks' = AddTask(tasks, [kind |-> "check_timer", client |-> c,
                                snapshot |-> view[c].session, row |-> 0,
                                away |-> FALSE])
    /\ UNCHANGED <<joined, session, participants, userOf, rejected, screen, lobby, view,
                   pollpc, overlapped>>

\* A click on the submit button, which is enabled.
HandleKeySubmit(c, key) == CanSubmit(c, key) /\ KeySubmitHandler(c, key)

\* Mutants of the completion condition: one timestamp is enough.
OperatorAAuthenticated(authData) ==
    /\ authData # None
    /\ authData[1].operator_a_auth_at # NULL

EitherAuthenticated(authData) ==
    /\ authData # None
    /\ IF authData[1].operator_a_auth_at # NULL THEN TRUE
       ELSE authData[1].operator_b_auth_at # NULL

\* authData?.operator_a_auth_at && authData?.operator_b_auth_at
BothAuthenticated(authData) ==
    /\ authData # None
    /\ authData[1].operator_a_auth_at # NULL
    /\ authData[1].operator_b_auth_at # NULL

\* The timer callback reads the latest row.
CompletionCheck(c) ==
    \E t \in BagToSet(tasks) :
    /\ t.client = c
    /\ t.kind = "check_timer"
    /\ tasks' = IF BothAuthenticated(LatestKeyAuth)
                THEN AddTask(DropTask(tasks, t),
                             [t EXCEPT !.kind = "check_auth",
                                       !.row = LatestKeyAuth[1].id,
                                       !.away = (screen[c] = "lobby")])
                ELSE DropTask(tasks, t)
    /\ UNCHANGED <<joined, session, participants, keyAuths, events, userOf, rejected, screen,
                   lobby, view, pollpc, clicks, overlapped>>

CompletionAuthenticated(c) ==
    \E t \in BagToSet(tasks) :
    /\ t.client = c
    /\ t.kind = "check_auth"
    /\ UpdateSessionState(t.snapshot[1], [authenticated |-> TRUE])
    /\ tasks' = AddTask(DropTask(tasks, t), [t EXCEPT !.kind = "check_status",
                                                      !.snapshot = None])
    /\ UNCHANGED <<joined, participants, keyAuths, events, userOf, rejected, screen, lobby,
                   view, pollpc, clicks, overlapped>>

CompletionStatus(c) ==
    \E t \in BagToSet(tasks) :
    /\ t.client = c
    /\ t.kind = "check_status"
    /\ keyAuths' = [keyAuths EXCEPT ![t.row].status = "complete"]
    /\ tasks' = AddTask(DropTask(tasks, t), [t EXCEPT !.kind = "check_step"])
    /\ UNCHANGED <<joined, session, participants, events, userOf, rejected, screen, lobby,
                   view, pollpc, clicks, overlapped>>

CompletionStep(c) ==
    \E t \in BagToSet(tasks) :
    /\ t.client = c
    /\ t.kind = "check_step"
    /\ session' = Some([session[1] EXCEPT !.current_step = 3])
    /\ LogEvent("dual_key_authentication_complete")
    /\ tasks' = DropTask(tasks, t)
    /\ UNCHANGED <<joined, participants, keyAuths, userOf, rejected, screen, lobby, view,
                   pollpc, clicks, overlapped>>

----------------------------------------------------------------------------
\* Simulator.handleLeaveSession

\* delete().eq('session_id', sessionId).eq('user_id', userId)
DeleteParticipant(user) ==
    SelectSeq(participants, LAMBDA p : p.user_id # user)

HandleLeaveSession(c) ==
    /\ Loaded(c)
    /\ clicks[c].leave > 0
    /\ clicks' = [clicks EXCEPT ![c].leave = @ - 1]
    /\ participants' = DeleteParticipant(userOf[c])
    /\ LogEvent("participant_left")
    /\ screen' = [screen EXCEPT ![c] = "lobby"]
    /\ view' = [view EXCEPT ![c] = EmptyView]
    /\ pollpc' = [pollpc EXCEPT ![c] = "idle"]
    /\ UNCHANGED <<joined, session, keyAuths, userOf, rejected, lobby, tasks, overlapped>>

----------------------------------------------------------------------------
\* The session after the procedure has run through step 3 with u2 and u3 as
\* operators, every client having polled since.
CompletedKeyAuth ==
    [id |-> 1,
     operator_a_key |-> "K3Y00001", operator_b_key |-> "K3Y00001",
     command_key |-> NULL,
     operator_a_auth_at |-> Timestamp, operator_b_auth_at |-> Timestamp,
     command_auth_at |-> NULL, status |-> "complete",
     operator_a_user |-> "u2", operator_b_user |-> "u3"]

AuthenticatedState ==
    [InitialSystemState EXCEPT !.initialized = TRUE, !.diagnosticsPassed = TRUE,
                               !.authenticated = TRUE]

InitResubmit ==
    /\ session = Some([NewSession("u1") EXCEPT !.status = "active",
                                               !.current_step = 3,
                                               !.system_state = AuthenticatedState])
    /\ participants = <<[user_id |-> "u1", role |-> "instructor"],
                        [user_id |-> "u2", role |-> "operator_a"],
                        [user_id |-> "u3", role |-> "operator_b"]>>
    /\ keyAuths = <<CompletedKeyAuth>>
    /\ events = [t \in EventTypes |->
                    CASE t = "participant_joined" -> 2
                      [] t \in {"participant_left", "diagnostics_completed/failed"} -> 0
                      [] OTHER -> 1]
    /\ joined = <<[user_id |-> "u2", role |-> "operator_a"],
                  [user_id |-> "u3", role |-> "operator_b"]>>
    /\ userOf = FourUsers
    /\ screen = [c \in Clients |-> IF c = "c4" THEN "lobby" ELSE "simulator"]
    /\ lobby = [c \in Clients |-> IdleLobby]
    /\ view = [c \in Clients |->
                  IF c = "c4" THEN EmptyView
                  ELSE [session |-> Some(AuthenticatedState),
                        participants |-> RowsOf(participants, FourUsers[c]),
                        userRole |-> RowsOf(participants, FourUsers[c])[1].role,
                        keyAuth |-> Some(Held(CompletedKeyAuth))]]
    /\ pollpc = [c \in Clients |-> "idle"]
    /\ tasks = EmptyBag
    /\ clicks = Resubmission
    /\ overlapped = FALSE
    /\ rejected = [c \in Clients |-> 0]

----------------------------------------------------------------------------
\* The session after the instructor has initialized, polled and clicked RUN
\* DIAGNOSTICS, and the run has ended with passed; the operators' clients have not
\* polled yet. The diagnostics timers of further clicks made during the run are
\* pending, or the instructor has left the session since.
InitializedState == [InitialSystemState EXCEPT !.initialized = TRUE]

DiagnosedState == [InitializedState EXCEPT !.diagnosticsPassed = TRUE]

PendingDiagnostics ==
    [kind |-> "diag_timer", client |-> Creator,
     snapshot |-> Some(InitializedState), row |-> 0, away |-> FALSE]

Diagnosed(pending, left, scenario) ==
    /\ session = Some([NewSession("u1") EXCEPT !.status = "active",
                                               !.current_step = 2,
                                               !.system_state = DiagnosedState])
    /\ participants =
          (IF left THEN <<>> ELSE <<[user_id |-> "u1", role |-> "instructor"]>>)
              \o <<[user_id |-> "u2", role |-> "operator_a"],
                   [user_id |-> "u3", role |-> "operator_b"]>>
    /\ keyAuths = <<>>
    /\ events = [NoEvents EXCEPT !["participant_joined"] = 2,
                                 !["participant_left"] = IF left THEN 1 ELSE 0,
                                 !["system_initialized"] = 1,
                                 !["diagnostics_started"] = 1 + BagCardinality(pending),
                                 !["diagnostics_completed/passed"] = 1]
    /\ joined = <<[user_id |-> "u2", role |-> "operator_a"],
                  [user_id |-> "u3", role |-> "operator_b"]>>
    /\ userOf = FourUsers
    /\ screen = [c \in Clients |->
                    IF c \in {"c2", "c3"} \/ (c = Creator /\ ~left)
                    THEN "simulator" ELSE "lobby"]
    /\ lobby = [c \in Clients |-> IdleLobby]
    /\ view = [c \in Clients |->
                  IF c = Creator /\ ~left
                  THEN [session |-> Some(InitializedState),
                        participants |-> <<[user_id |-> "u1", role |-> "instructor"]>>,
                        userRole |-> "instructor", keyAuth |-> None]
                  ELSE EmptyView]
    /\ pollpc = [c \in Clients |-> "idle"]
    /\ tasks = pending
    /\ clicks = scenario
    /\ overlapped = FALSE
    /\ rejected = [c \in Clients |-> 0]

InitRerun == Diagnosed(SetToBag({PendingDiagnostics}), FALSE, Rerun)

InitKeyEntry == Diagnosed(EmptyBag, TRUE, KeyEntry)

----------------------------------------------------------------------------
\* Store calls that the store rejects: the call resolves to { error }

\* joinSession: if (participantError) throw participantError, caught by
\* setError(err.message); no event is logged and the session is not entered.
JoinInsertRejected(c) ==
    /\ lobby[c].pc = "join_insert"
    /\ rejected' = [rejected EXCEPT ![c] = @ + 1]
    /\ lobby' = [lobby EXCEPT ![c].pc = "idle", ![c].error = "insert rejected"]
    /\ UNCHANGED <<joined, session, participants, keyAuths, events, userOf, screen,
                   view, pollpc, tasks, clicks, overlapped>>

\* handleInitialize: updateSessionState does not look at the result of its
\* update, and the handler goes on with logEvent and the current_step write.
HandleInitializeRejected(c) ==
    /\ CanInitialize(c)
    /\ clicks[c].init > 0
    /\ clicks' = [clicks EXCEPT ![c].init = @ - 1]
    /\ rejected' = [rejected EXCEPT ![c] = @ + 1]
    /\ LogEvent("system_initialized")
    /\ tasks' = AddTask(tasks, [kind |-> "init_step", client |-> c,
                                snapshot |-> None, row |-> 0, away |-> FALSE])
    /\ UNCHANGED <<joined, session, participants, keyAuths, userOf, screen, lobby,
                   view, pollpc, overlapped>>

----------------------------------------------------------------------------
LobbyStep(c) ==
    \/ CreateSession(c)
    \/ CreateParticipant(c)

JoinStep(c) ==
    \/ \E code \in Codes : JoinSession(c, code)
    \/ JoinRoles(c)
    \/ JoinInsert(c)

PollStep(c) ==
    \/ PollSession(c)
    \/ PollParticipants(c)
    \/ PollKeyAuth(c)

ProcedureStep(c) ==
    \/ HandleInitialize(c)
    \/ HandleDiagnostics(c)
    \/ \E key \in Keys : HandleKeySubmit(c, key)

\* The pending continuations and timer callbacks that client c started.
TaskStep(c) ==
    \/ InitializeStep(c)
    \/ \E passed \in BOOLEAN : DiagnosticsTimer(c, passed)
    \/ DiagnosticsStep(c)
    \/ CompletionCheck(c)
    \/ CompletionAuthenticated(c)
    \/ CompletionStatus(c)
    \/ CompletionStep(c)

\* The clients inside the session: polls, the three steps, leave, and the timers.
Next ==
    \E c \in Clients :
        PollStep(c) \/ ProcedureStep(c) \/ TaskStep(c) \/ HandleLeaveSession(c)

Spec == Init /\ [][Next]_vars

\* The lobby: session_participants is written by createSession, joinSession and
\* handleLeaveSession only, and none of them reads what the procedure writes.
NextLobby ==
    \E c \in Clients :
        LobbyStep(c) \/ JoinStep(c) \/ PollStep(c) \/ HandleLeaveSession(c)

SpecLobby == InitLobby /\ [][NextLobby]_vars

\* The lobby of a session in progress.
NextSeats ==
    \E c \in Clients : JoinStep(c) \/ PollStep(c) \/ HandleLeaveSession(c)

SpecSeats == InitSeats /\ [][NextSeats]_vars

\* Joins and leaves during the procedure.
NextReseating ==
    \E c \in Clients :
        \/ JoinStep(c)
        \/ PollStep(c) \/ ProcedureStep(c) \/ TaskStep(c) \/ HandleLeaveSession(c)

SpecReseating == InitReseating /\ [][NextReseating]_vars

\* Steps 1 and 2 only.
NextDiagnostics ==
    \E c \in Clients :
        \/ PollStep(c)
        \/ HandleInitialize(c) \/ InitializeStep(c)
        \/ HandleDiagnostics(c)
        \/ \E passed \in BOOLEAN : DiagnosticsTimer(c, passed)
        \/ DiagnosticsStep(c)

SpecDiagnostics == InitDiagnostics /\ [][NextDiagnostics]_vars

\* Steps 1 and 2 and the leave button.
NextDeparture == NextDiagnostics \/ \E c \in Clients : HandleLeaveSession(c)

SpecDeparture == InitDeparture /\ [][NextDeparture]_vars

\* Step 1 and joins against a store that may reject a write.
NextFaults ==
    \E c \in Clients :
        \/ JoinStep(c) \/ JoinInsertRejected(c)
        \/ PollStep(c)
        \/ HandleInitialize(c) \/ HandleInitializeRejected(c) \/ InitializeStep(c)

SpecFaults == InitFaults /\ [][NextFaults]_vars

\* Leaving, joining and submitting once the authentication is complete.
NextResubmit ==
    \E c \in Clients :
        \/ JoinStep(c) \/ PollStep(c) \/ HandleLeaveSession(c)
        \/ \E key \in Keys : HandleKeySubmit(c, key)
        \/ CompletionCheck(c)

SpecResubmit == InitResubmit /\ [][NextResubmit]_vars

\* The procedure with one operator submitting, under polls that keep running:
\* setInterval(loadSessionData, 2000) fires for as long as the Simulator is mounted.
NextPolling ==
    \E c \in Clients :
        \/ PollStep(c) \/ ProcedureStep(c) \/ HandleLeaveSession(c)
        \/ InitializeStep(c)
        \/ \E passed \in BOOLEAN : DiagnosticsTimer(c, passed)
        \/ DiagnosticsStep(c)
        \/ CompletionCheck(c)

SpecPolling ==
    /\ InitPolling /\ [][NextPolling]_vars
    /\ \A c \in Clients : WF_vars(PollStep(c))

\* Polls, key submissions and the timers, nobody leaving.
NextRerun ==
    \E c \in Clients :
        \/ PollStep(c)
        \/ \E key \in Keys : HandleKeySubmit(c, key)
        \/ \E passed \in BOOLEAN : DiagnosticsTimer(c, passed)
        \/ DiagnosticsStep(c)
        \/ CompletionCheck(c) \/ CompletionAuthenticated(c)
        \/ CompletionStatus(c) \/ CompletionStep(c)

SpecRerun == InitRerun /\ [][NextRerun]_vars

\* The key handler called with whatever the input holds, polls and the
\* completion checks.
NextKeyEntry ==
    \E c \in Clients :
        \/ PollStep(c)
        \/ \E key \in TypedKeys : KeySubmitHandler(c, key)
        \/ CompletionCheck(c) \/ CompletionAuthenticated(c)
        \/ CompletionStatus(c) \/ CompletionStep(c)

SpecKeyEntry == InitKeyEntry /\ [][NextKeyEntry]_vars

\* Steps 1 and 2 with an observer in the session.
SpecObserver == InitObserver /\ [][NextDiagnostics]_vars

----------------------------------------------------------------------------
\* Properties

StoredState == session[1].system_state
Rows == 1..Len(keyAuths)
HasBoth(row) == row.operator_a_auth_at # NULL /\ row.operator_b_auth_at # NULL

\* C1: every write to current_step stores a value greater than or equal to the
\* value stored just before it.
CurrentStepNeverDecreases ==
    [][session # None /\ session' # None
         => session'[1].current_step >= session[1].current_step]_vars

\* C2: system_state.authenticated is true only if some KeyAuthorization row has
\* both operator timestamps, an operator_a and an operator_b submission having
\* been made before.
TwoPersonIntegrity ==
    (session # None /\ StoredState.authenticated)
        => /\ \E i \in Rows : HasBoth(keyAuths[i])
           /\ events["operator_a_authenticated"] >= 1
           /\ events["operator_b_authenticated"] >= 1

\* A completion check has recorded the authentication.
AuthenticationRecorded == session # None /\ StoredState.authenticated

\* C3: on a KeyAuthorization row with both operator timestamps, the operator_a
\* submission and the operator_b submission were made by two distinct users.
KeysFromDistinctUsers ==
    \A i \in Rows :
        HasBoth(keyAuths[i])
            => keyAuths[i].operator_a_user # keyAuths[i].operator_b_user

BothSubmitted ==
    /\ events["operator_a_authenticated"] >= 1
    /\ events["operator_b_authenticated"] >= 1

NoCompletionCheckPending ==
    \A t \in BagToSet(tasks) :
        t.kind \notin {"check_timer", "check_auth", "check_status", "check_step"}

\* C4: once operator_a and operator_b have each submitted a key and every
\* completion check started by a submission has run, the store holds
\* authenticated = true, current_step = 3, the current KeyAuthorization with
\* status complete, and a dual_key_authentication_complete event.
CompletionFollowsBothSubmissions ==
    (BothSubmitted /\ NoCompletionCheckPending)
        => /\ StoredState.authenticated
           /\ session[1].current_step = 3
           /\ LatestKeyAuth # None
           /\ LatestKeyAuth[1].status = "complete"
           /\ events["dual_key_authentication_complete"] >= 1

\* C5: every KeyAuthorization row has status complete if and only if both its
\* operator timestamps are non-null.
CompleteIffBothTimestamps ==
    \A i \in Rows : (keyAuths[i].status = "complete") <=> HasBoth(keyAuths[i])

\* C6: no KeyAuthorization row has status complete while one of its operator
\* timestamps is null, in any state between the store writes.
CompleteRequiresBothTimestamps ==
    \A i \in Rows : keyAuths[i].status = "complete" => HasBoth(keyAuths[i])

\* A completion check has marked a row complete.
SomeRowComplete == \E i \in Rows : keyAuths[i].status = "complete"

RowsWithRole(role) == {i \in 1..Len(participants) : participants[i].role = role}

\* C7: the session has at most one participant row with role operator_a and at
\* most one with role operator_b.
AtMostOneOperatorPerRole ==
    /\ Cardinality(RowsWithRole("operator_a")) <= 1
    /\ Cardinality(RowsWithRole("operator_b")) <= 1

\* The i-th join event is its user's first; the number of distinct users that
\* have joined up to it.
FirstJoin(i) == \A j \in 1..(i - 1) : joined[j].user_id # joined[i].user_id
JoinRank(i) == Cardinality({j \in 1..i : FirstJoin(j)})
RoleOfRank(n) ==
    IF n = 1 THEN "operator_a" ELSE IF n = 2 THEN "operator_b" ELSE "observer"

\* C8, as claimed: in any history of joins and leaves, the first user to join by
\* code receives operator_a, the second distinct user operator_b and every later
\* distinct user observer.
RolesFollowJoinOrder ==
    \A i \in 1..Len(joined) : FirstJoin(i) => joined[i].role = RoleOfRank(JoinRank(i))

\* C8, amended: a join that finds no row of its user takes the first of
\* operator_a, operator_b that the roles it read do not contain, else observer;
\* so the roles follow the order of joins as long as no participant has left and
\* no two joins have overlapped.
RolesFollowOccupancy ==
    /\ \A c \in Clients :
          lobby[c].pc = "join_insert"
              => lobby[c].role =
                    (CASE "operator_a" \notin lobby[c].existingRoles -> "operator_a"
                       [] /\ "operator_a" \in lobby[c].existingRoles
                          /\ "operator_b" \notin lobby[c].existingRoles -> "operator_b"
                       [] OTHER -> "observer")
    /\ (events["participant_left"] = 0 /\ ~overlapped) => RolesFollowJoinOrder

\* Three users have joined one after the other and nobody has left.
ThreeJoinersSeated ==
    /\ events["participant_left"] = 0 /\ ~overlapped
    /\ Len(joined) = 3
    /\ Cardinality({joined[i].user_id : i \in 1..3}) = 3
    /\ joined[2].role = "operator_b" /\ joined[3].role = "observer"
    /\ \A c \in Clients : lobby[c].pc = "idle"

RowsOfUser(user) == {i \in 1..Len(participants) : participants[i].user_id = user}

\* C9: after any number of joins by a user, also overlapping ones from two of the
\* user's clients, there is exactly one participant row of that user.
OneRowPerUser ==
    \A u \in Users :
        /\ Cardinality(RowsOfUser(u)) <= 1
        /\ (events["participant_left"] = 0
              /\ \E i \in 1..Len(joined) : joined[i].user_id = u)
             => Cardinality(RowsOfUser(u)) = 1

\* C10: the session has at most one KeyAuthorization row.
AtMostOneKeyAuthorization == Len(keyAuths) <= 1

\* A diagnostics timer callback has run with outcome failed.
FailedDiagnosticsCallback ==
    events'["diagnostics_completed/failed"] > events["diagnostics_completed/failed"]

\* C11: a diagnostics timer callback with outcome failed leaves the stored
\* system_state and current_step as they were just before it.
FailedDiagnosticsChangesNothing ==
    [][FailedDiagnosticsCallback => session' = session]_vars

\* A diagnostics run ends: its current_step write, the last store call of a
\* callback with outcome passed, is made.
DiagnosticsRunEnds ==
    \E t \in BagToSet(tasks) :
        t.kind = "diag_step" /\ CopiesIn(t, tasks') < CopiesIn(t, tasks)

\* C12: while every diagnostics callback so far drew passed, a run ends with
\* diagnosticsPassed = true and current_step = 2 stored; while every callback so
\* far drew failed, neither diagnosticsPassed = true nor current_step = 2 is stored.
DiagnosticsFollowsOutcome ==
    [][/\ (DiagnosticsRunEnds /\ events'["diagnostics_completed/failed"] = 0)
            => /\ session'[1].system_state.diagnosticsPassed
               /\ session'[1].current_step = 2
       /\ events'["diagnostics_completed/passed"] = 0
            => /\ ~session'[1].system_state.diagnosticsPassed
               /\ session'[1].current_step # 2]_vars

\* The role of client c's user in the stored participant rows.
StoredRole(c) == FindMe(userOf[c])

\* Client c performs the initialize action, or the diagnostics action.
Initializes(c) == clicks'[c].init < clicks[c].init
Diagnoses(c) == clicks'[c].diag < clicks[c].diag
Submits(c) == clicks'[c].submit < clicks[c].submit

\* C13: no initialize action and no diagnostics action is performed by a client
\* whose role is operator_a or operator_b.
OperatorsOnlySubmit ==
    [][\A c \in Clients :
          (Initializes(c) \/ Diagnoses(c))
              => StoredRole(c) \notin {"operator_a", "operator_b"}]_vars

\* C14: no initialize, diagnostics or key-submission action is performed by a
\* client whose participant role is observer, also before its poll has resolved
\* its role.
ObserversTriggerNothing ==
    [][\A c \in Clients :
          (Initializes(c) \/ Diagnoses(c) \/ Submits(c))
              => StoredRole(c) # "observer"]_vars

\* A timer callback of client c runs a step (it fires, or it goes on after a
\* store call), having fired after c left the session.
TimerRunsAway(c) ==
    \E t \in BagToSet(tasks) :
        /\ t.client = c
        /\ CopiesIn(t, tasks') < CopiesIn(t, tasks)
        /\ \/ t.kind \in {"diag_timer", "check_timer"} /\ screen[c] = "lobby"
           \/ t.away

\* C15: a diagnostics timer or completion-check timer that fires after its client
\* left the session changes no session record, KeyAuthorization row or event.
TimersAfterLeaveDoNothing ==
    [][\A c \in Clients :
          TimerRunsAway(c) => UNCHANGED <<session, keyAuths, events>>]_vars

\* The store rejects a store call of an action of client c.
StoreCallRejected(c) == rejected'[c] > rejected[c]

\* C16: when the store rejects a store call of an action, the client shows an
\* error (the lobby's error line; the Simulator renders none), its local view is
\* as before, and the action makes none of its remaining store calls.
FailuresStopTheAction ==
    [][\A c \in Clients :
          StoreCallRejected(c)
              => /\ screen'[c] = "lobby" /\ lobby'[c].error # ""
                 /\ view'[c] = view[c]
                 /\ UNCHANGED <<session, participants, keyAuths, events, tasks>>]_vars

\* Client c joins with a code that no session has.
JoinsUnknownCode(c) ==
    /\ clicks'[c].join < clicks[c].join
    /\ lobby'[c].code # ""
    /\ session = None \/ session[1].session_code # lobby'[c].code

\* C17: a join with a code that resolves to no session shows 'Session not found',
\* inserts no participant row and no event, and does not enter a session.
UnknownCodeChangesNothing ==
    [][\A c \in Clients :
          JoinsUnknownCode(c)
              => /\ lobby'[c].error = "Session not found"
                 /\ lobby'[c].pc = "idle" /\ screen'[c] = "lobby"
                 /\ UNCHANGED <<session, participants, keyAuths, events, joined>>]_vars

\* A join with an unknown code has failed while the session exists.
UnknownCodeRefused ==
    \E c \in Clients :
        /\ session # None /\ lobby[c].code = "ZZZZ-9999"
        /\ screen[c] = "lobby" /\ lobby[c].pc = "idle"
        /\ lobby[c].error = "Session not found"

\* C18: once the latest-created KeyAuthorization row of the session has status
\* complete, the latest-created row has status complete in every later state.
CurrentStatusNeverRegresses ==
    [][(LatestKeyAuth # None /\ LatestKeyAuth[1].status = "complete")
          => keyAuths'[Len(keyAuths')].status = "complete"]_vars

\* The store and the views as the procedure leaves them (InitResubmit).
ProcedureCompleted ==
    /\ session = Some([NewSession("u1") EXCEPT !.status = "active",
                                               !.current_step = 3,
                                               !.system_state = AuthenticatedState])
    /\ keyAuths = <<CompletedKeyAuth>>
    /\ Len(participants) = 3
    /\ events["dual_key_authentication_complete"] = 1
    /\ events["diagnostics_completed/failed"] = 0
    /\ tasks = EmptyBag
    /\ \A c \in {"c1", "c2", "c3"} :
          /\ pollpc[c] = "idle"
          /\ view[c] = [session |-> Some(AuthenticatedState),
                        participants |-> RowsOf(participants, userOf[c]),
                        userRole |-> FindMe(userOf[c]),
                        keyAuth |-> Some(Held(CompletedKeyAuth))]

\* The local copies of client c equal what the store holds.
Converged(c) ==
    /\ view[c].session = Some(StoredState)
    /\ view[c].participants = RowsOf(participants, userOf[c])
    /\ view[c].keyAuth =
          IF LatestKeyAuth = None THEN None ELSE Some(Held(LatestKeyAuth[1]))

AllConverged == \A c \in Clients : screen[c] = "simulator" => Converged(c)

UnwiredFieldsKeepInitialValues ==
    session # None
        => \A f \in {"armed", "countdownActive", "countdownAbortable",
                      "countdownSeconds", "systemLocked", "lockType", "systemHold",
                      "faultInjected", "adminForcedOutcome"} :
              StoredState[f] = InitialSystemState[f]

\* All three steps have written the system_state.
AllStepsWritten ==
    /\ session # None
    /\ StoredState.initialized /\ StoredState.diagnosticsPassed
    /\ StoredState.authenticated

\* C21: once the stored system_state.authenticated is true, it is true in every
\* later state, whatever the clients write afterwards.
AuthenticationNeverUndone ==
    [][(session # None /\ StoredState.authenticated)
          => session'[1].system_state.authenticated]_vars

\* The state the instructor's two clicks on RUN DIAGNOSTICS and the first run
\* leave (InitRerun).
DiagnosticsStartedTwice ==
    /\ session = Some([NewSession("u1") EXCEPT !.status = "active",
                                               !.current_step = 2,
                                               !.system_state = DiagnosedState])
    /\ tasks = SetToBag({PendingDiagnostics})
    /\ keyAuths = <<>> /\ Len(participants) = 3
    /\ events["diagnostics_started"] = 2 /\ events["system_initialized"] = 1
    /\ events["diagnostics_completed/passed"] = 1
    /\ events["diagnostics_completed/failed"] = 0
    /\ pollpc = [c \in Clients |-> "idle"]
    /\ view["c1"] = [session |-> Some(InitializedState),
                     participants |-> RowsOf(participants, "u1"),
                     userRole |-> "instructor", keyAuth |-> None]
    /\ view["c2"] = EmptyView /\ view["c3"] = EmptyView

\* C22: in the stored system_state, authenticated = true implies
\* diagnosticsPassed = true, and diagnosticsPassed = true implies
\* initialized = true.
ProgressFlagsOrdered ==
    session # None
        => /\ StoredState.authenticated => StoredState.diagnosticsPassed
           /\ StoredState.diagnosticsPassed => StoredState.initialized

\* The authentication is stored after both diagnostics runs, the second of them
\* started on a copy read before the first ended, have written the system_state.
AuthenticatedAfterRerun ==
    /\ StoredState.authenticated
    /\ events["diagnostics_completed/passed"]
          + events["diagnostics_completed/failed"] = 2

\* C23: once the stored system_state.initialized is true, it is true in every
\* later state.
InitializationNeverUndone ==
    [][(session # None /\ StoredState.initialized)
          => session'[1].system_state.initialized]_vars

\* Writes made on copies that other writes had replaced have landed: both
\* clients have initialized and both diagnostics runs of the instructor have ended.
StaleDiagnosticsWritten ==
    /\ session # None /\ StoredState.initialized
    /\ events["diagnostics_started"] = 2
    /\ events["diagnostics_completed/passed"]
          + events["diagnostics_completed/failed"] = 2
    /\ events["system_initialized"] = 2

\* C24: in every state in which the stored current_step is 3, the stored
\* system_state.authenticated is true.
StepThreeImpliesAuthenticated ==
    (session # None /\ session[1].current_step = 3) => StoredState.authenticated

\* C25: the event log of the session contains at most one
\* dual_key_authentication_complete event.
CompletionRecordedOnce == events["dual_key_authentication_complete"] <= 1

\* A submission by the operator of the given role updates an existing row.
UpdatesRow(role) ==
    /\ events'[IF role = "operator_a" THEN "operator_a_authenticated"
               ELSE "operator_b_authenticated"]
         > events[IF role = "operator_a" THEN "operator_a_authenticated"
                  ELSE "operator_b_authenticated"]
    /\ Len(keyAuths') = Len(keyAuths)

\* C26: a submission by operator_a that updates an existing KeyAuthorization row
\* leaves the operator_b, command and status columns of every row as they were,
\* and symmetrically for operator_b; a submission whose key length is not 8
\* leaves the KeyAuthorization rows as they were.
SubmissionWritesOwnFieldsOnly ==
    [][/\ UpdatesRow("operator_a")
            => \A i \in Rows :
                  /\ keyAuths'[i].operator_b_key = keyAuths[i].operator_b_key
                  /\ keyAuths'[i].operator_b_auth_at = keyAuths[i].operator_b_auth_at
                  /\ keyAuths'[i].command_key = keyAuths[i].command_key
                  /\ keyAuths'[i].command_auth_at = keyAuths[i].command_auth_at
                  /\ keyAuths'[i].status = keyAuths[i].status
       /\ UpdatesRow("operator_b")
            => \A i \in Rows :
                  /\ keyAuths'[i].operator_a_key = keyAuths[i].operator_a_key
                  /\ keyAuths'[i].operator_a_auth_at = keyAuths[i].operator_a_auth_at
                  /\ keyAuths'[i].command_key = keyAuths[i].command_key
                  /\ keyAuths'[i].command_auth_at = keyAuths[i].command_auth_at
                  /\ keyAuths'[i].status = keyAuths[i].status
       /\ \A c \in Clients : \A key \in TypedKeys :
             (KeySubmitHandler(c, key) /\ Len(key) # KeyLength)
                 => keyAuths' = keyAuths]_vars

\* Operator c2 has called the handler twice and one call, with a short key, wrote
\* nothing; the other operator's submission has updated the row c2 inserted.
ShortKeyIgnoredAndRowUpdated ==
    /\ clicks["c2"].submit = 0
    /\ events["operator_a_authenticated"] = 1
    /\ Len(keyAuths) = 1 /\ HasBoth(keyAuths[1])

\* The state in which the operators are left to enter their keys (InitKeyEntry).
OperatorsLeftAlone ==
    /\ session = Some([NewSession("u1") EXCEPT !.status = "active",
                                               !.current_step = 2,
                                               !.system_state = DiagnosedState])
    /\ Len(participants) = 2 /\ screen["c1"] = "lobby"
    /\ tasks = EmptyBag /\ keyAuths = <<>>
    /\ events["participant_left"] = 1 /\ events["diagnostics_started"] = 1
    /\ events["diagnostics_completed/passed"] = 1
    /\ events["diagnostics_completed/failed"] = 0
    /\ pollpc = [c \in Clients |-> "idle"]
    /\ \A c \in Clients : view[c] = EmptyView
====
